---- MODULE Spec2Model ----
(***************************************************************************)
(* Model of the training / evaluation orchestration of util/runner.py      *)
(* (class Runner) together with the evaluation entry point of              *)
(* evaluate_ner.py.                                                        *)
(*                                                                         *)
(* One Runner object lives per process; its name_suffix is fixed at        *)
(* construction.  The log directory (checkpoint record files and the       *)
(* single slot of model weights) outlives the processes.                   *)
(***************************************************************************)
EXTENDS Integers, Sequences, FiniteSets, TLC

VARIABLES
    cfg,                  \* self.config (read-only after construction)
    run,                  \* self.name_suffix: one per Runner object
    pc,                   \* position of the single thread of control
    err,                  \* the exception that ended the process, or "none"
    ckpt_files,           \* log_dir: model_<suffix>_<step>.bin -> record
    logdir_weights,       \* log_dir: the weights written by save_pretrained
    optimizer,            \* self.optimizer
    scheduler,            \* self.scheduler
    weights,              \* wrapper.model
    grads,                \* mini-batches whose gradients sit in .grad
    load_req,             \* arguments of the last initialize_model call
    ret_epoch,            \* epoch returned by initialize_model
    continued,            \* train(..., continued=...)
    epo,                  \* loop variable of the epoch loop
    batch_idx,            \* position in trainloader within the epoch
    loss_during_accum,    \* local of train
    loss_during_report,   \* local of train
    loss_history,         \* local of train
    max_f1,               \* local of train
    best_ckpt_step_count, \* local of train
    f1,                   \* local of train: the last dev score returned
    eval_calls,           \* evaluate() calls on other splits: <<split, step>>
    \* observations of the current train call (not program state)
    start_step,           \* scheduler step count when the epoch loop began
    micro_steps,          \* mini-batches processed (forward/backward passes)
    opt_steps,            \* optimizer.step() calls
    micro_losses,         \* the losses of the current window of grad_accum
                          \*   consecutive mini-batches, counted from the start
    dev_scores,           \* the set of dev scores returned so far
    evals,                \* <<optimizer steps done, step count>> per dev evaluation
    reports,              \* what each report emitted
    save_log,             \* the live objects at each save_model_checkpoint call
    named_parameters,     \* the wrapper's parameters: name and owning part
    param_groups,         \* optimizer.param_groups: members, lr, weight decay
    ops                   \* the operations on gradients, optimizer and
                          \*   scheduler made so far by this train call

vars == <<cfg, run, pc, err, ckpt_files, logdir_weights,
          optimizer, scheduler, weights, grads, load_req, ret_epoch,
          continued, epo, batch_idx, loss_during_accum, loss_during_report,
          loss_history, max_f1, best_ckpt_step_count, f1, eval_calls,
          start_step, micro_steps, opt_steps, micro_losses, dev_scores, evals, reports, save_log,
          named_parameters, param_groups, ops>>

(***************************************************************************)
(* Bounds of the model.                                                    *)
(***************************************************************************)
MaxExamples == 4
MaxBatchSize == 2
MaxEpochs == 2
MaxGradAccum == 2
MaxFreq == 2
MaxScore == 2
MaxLoss == 2
MaxRuns == 2
MaxGradNorm == 1
MaxNameLen == 3
MaxParams == 2

Scores == 0..MaxScore
Losses == 1..MaxLoss

(***************************************************************************)
(* Helpers.                                                                *)
(***************************************************************************)
Max(a, b) == IF a >= b THEN a ELSE b

RECURSIVE SeqSum(_)
SeqSum(s) == IF s = <<>> THEN 0 ELSE Head(s) + SeqSum(Tail(s))

\* len(trainloader): DataLoader without drop_last yields ceil(n / batch_size)
NumBatches(c) == (c.n_examples + c.batch_size - 1) \div c.batch_size

\* total_update_steps of train and of load_model_checkpoint
TotalUpdateSteps(c) ==
    (c.n_examples * c.num_epochs) \div (c.grad_accum * c.batch_size)


(***************************************************************************)
(* Learning-rate schedule.  util.get_scheduler_lambda gives, per parameter *)
(* group, a multiplicative factor indexed by the scheduler's last_epoch:   *)
(* linear warm-up over warmup_steps, then linear decay to 0 at             *)
(* total_update_steps.  Factors are in units of 1/LrScale.                 *)
(***************************************************************************)
LrScale == 4

get_scheduler_lambda(step, warmup_steps, total) ==
    IF step < warmup_steps
    THEN (step * LrScale) \div warmup_steps
    ELSE Max(0, ((total - step) * LrScale) \div Max(1, total - warmup_steps))

\* warmup_steps = int(total_update_steps * warmup_ratio), warmup_ratio = 0.5
WarmupSteps(total) == total \div 2

\* the three groups: plm with decay, plm without decay, task (no warm-up)
GroupLrs(last_epoch, total) ==
    << get_scheduler_lambda(last_epoch, WarmupSteps(total), total),
       get_scheduler_lambda(last_epoch, WarmupSteps(total), total),
       get_scheduler_lambda(last_epoch, 0, total) >>

(***************************************************************************)
(* Runner.get_optimizer, lines 254-272: the parameter groups.              *)
(* A parameter name is a sequence of pieces of text; a piece is one of the *)
(* words of the no-decay patterns, the separator, or a module path.  With  *)
(* these pieces `nd in n` is true exactly when the pieces of nd occur      *)
(* consecutively in n.  A parameter is identified by its position in       *)
(* named_parameters.                                                       *)
(***************************************************************************)
Segments == {"encoder.layer.0", ".", "bias", "weight", "LayerNorm", "layer_norm"}
Names == UNION {[1..k -> Segments] : k \in 1..MaxNameLen}
Parts == {"plm", "task"}

\* line 255
no_decay == << <<"bias">>,
               <<"LayerNorm", ".", "weight">>,
               <<"layer_norm", ".", "weight">> >>

\* nd in n (str.__contains__)
Contains(nd, n) ==
    \E i \in 1..(Len(n) - Len(nd) + 1) : SubSeq(n, i, i + Len(nd) - 1) = nd

\* a variant of any_no_decay that compares the whole name
any_no_decay_whole(n) == \E k \in DOMAIN no_decay : no_decay[k] = n

\* any(nd in n for nd in no_decay)
any_no_decay(n) == \E k \in DOMAIN no_decay : Contains(no_decay[k], n)

\* wrapper.get_params(named=True): the (name, parameter) pairs of the
\* pretrained encoder and those of the task head
get_params(named) ==
    LET pairs == [i \in 1..Len(named) |->
                    [n |-> named[i].name, p |-> i, part |-> named[i].part]]
    IN  [plm_param  |-> SelectSeq(pairs, LAMBDA x : x.part = "plm"),
         task_param |-> SelectSeq(pairs, LAMBDA x : x.part = "task")]

\* [p for n, p in s]
ParamsOf(s) == [i \in 1..Len(s) |-> s[i].p]

\* lines 258-272
grouped_param(plm_param, task_param) ==
    << [params |-> ParamsOf(SelectSeq(plm_param,
                                      LAMBDA x : ~any_no_decay(x.n))),
        lr |-> "plm_learning_rate", weight_decay |-> "adam_weight_decay"],
       [params |-> ParamsOf(SelectSeq(plm_param,
                                      LAMBDA x : any_no_decay(x.n))),
        lr |-> "plm_learning_rate", weight_decay |-> "0.0"],
       [params |-> ParamsOf(task_param),
        lr |-> "task_learning_rate", weight_decay |-> "0.0"] >>

\* lines 256-276: the groups handed to AdamW
optimizer_param_groups(named) ==
    LET gp == get_params(named)
    IN  grouped_param(gp.plm_param, gp.task_param)

NoGroups == <<>>

\* the parameters of the wrapper of the training runs
ModelParameters ==
    << [name |-> <<"encoder.layer.0", ".", "weight">>, part |-> "plm"],
       [name |-> <<"encoder.layer.0", ".", "bias">>,   part |-> "plm"],
       [name |-> <<"bias">>,                           part |-> "task"] >>

(***************************************************************************)
(* Optimizer and scheduler objects.                                        *)
(*   optimizer.step : AdamW's per-parameter update count                   *)
(*   optimizer.lr   : param_groups[i]['lr'] / base lr                      *)
(*   scheduler.step_count : LambdaLR._step_count                           *)
(***************************************************************************)
NoOptimizer == [exists |-> FALSE, step |-> 0, lr |-> <<0, 0, 0>>]
NoScheduler == [exists |-> FALSE, step_count |-> 0, last_epoch |-> 0,
                last_lr |-> <<0, 0, 0>>]

\* AdamW(grouped_param, ...): three groups at their base learning rate
get_optimizer ==
    [exists |-> TRUE, step |-> 0, lr |-> <<LrScale, LrScale, LrScale>>]

\* LambdaLR(optimizer, [...]): the constructor ends with _initial_step(),
\* which sets _step_count = 0 and calls step() once, so that a new scheduler
\* has _step_count = 1 and last_epoch = 0 and has written lr(0) to the groups.
get_scheduler(opt, total) ==
    [sched |-> [exists |-> TRUE, step_count |-> 1, last_epoch |-> 0,
                last_lr |-> GroupLrs(0, total)],
     opt   |-> [opt EXCEPT !.lr = GroupLrs(0, total)]]

\* scheduler.step()
SchedulerStep(sched, opt, total) ==
    [sched |-> [sched EXCEPT !.step_count = @ + 1,
                             !.last_epoch = @ + 1,
                             !.last_lr = GroupLrs(sched.last_epoch + 1, total)],
     opt   |-> [opt EXCEPT !.lr = GroupLrs(sched.last_epoch + 1, total)]]

\* optimizer.step()
OptimizerStep(opt) == [opt EXCEPT !.step = @ + 1]

\* optimizer.state_dict() / load_state_dict()
OptimizerStateDict(opt) == [state |-> opt.step, param_groups |-> opt.lr]
OptimizerLoadStateDict(opt, sd) ==
    [opt EXCEPT !.step = sd.state, !.lr = sd.param_groups]

\* scheduler.state_dict() / load_state_dict(): every attribute but the
\* optimizer and the lambdas
SchedulerStateDict(sched) ==
    [step_count |-> sched.step_count, last_epoch |-> sched.last_epoch,
     last_lr |-> sched.last_lr]
\* a variant of SchedulerLoadStateDict that restores nothing
SchedulerLoadStateDict_skip(sched, sd) == sched

SchedulerLoadStateDict(sched, sd) ==
    [sched EXCEPT !.step_count = sd.step_count,
                  !.last_epoch = sd.last_epoch,
                  !.last_lr = sd.last_lr]

(***************************************************************************)
(* Model weights are identified by where they come from.                   *)
(***************************************************************************)
NoWeights   == [src |-> "none", run |-> 0, step |-> 0]
BaseWeights == [src |-> "base", run |-> 0, step |-> 0]  \* wrapper as constructed
HubWeights  == [src |-> "hub", run |-> 0, step |-> 0]   \* from_pretrained(<name>)
TrainedWeights(r, s) == [src |-> "trained", run |-> r, step |-> s]

(***************************************************************************)
(* Suffixes handed to initialize_model / load_model_checkpoint.            *)
(***************************************************************************)
NoSuffix == [kind |-> "none", run |-> 0, step |-> 0]       \* saved_suffix=None
SuffixX  == [kind |-> "unknown", run |-> 0, step |-> 0]    \* "X"
HubName  == [kind |-> "hub", run |-> 0, step |-> 0]        \* a model identifier
CkptSuffix(r, s) == [kind |-> "ckpt", run |-> r, step |-> s]  \* <suffix>_<step>

\* what from_pretrained(suffix) can resolve without the log directory
PretrainedHub == {HubName}

CkptKey(r, s) == <<r, s>>
\* os.path.exists(join(log_dir, 'model_<suffix>.bin'))
PathExists(files, suffix) ==
    suffix.kind = "ckpt" /\ CkptKey(suffix.run, suffix.step) \in DOMAIN files


(***************************************************************************)
(* Checkpoint manager.                                                     *)
(***************************************************************************)
NoFiles == [k \in {} |-> 0]

\* a variant of save_model_checkpoint that keys the record file by the epoch
save_model_checkpoint_by_epoch(files, w, opt, sched, r, step, current_epoch) ==
    [files  |-> (CkptKey(r, current_epoch) :>
                    [current_epoch        |-> current_epoch,
                     optimizer_state_dict |-> OptimizerStateDict(opt),
                     scheduler_state_dict |-> SchedulerStateDict(sched)])
                @@ files,
     logdir |-> w]

\* Runner.save_model_checkpoint: the record file keyed by <suffix>_<step>,
\* then the weights into the log directory (one slot, overwritten).
save_model_checkpoint(files, w, opt, sched, r, step, current_epoch) ==
    [files  |-> (CkptKey(r, step) :>
                    [current_epoch        |-> current_epoch,
                     optimizer_state_dict |-> OptimizerStateDict(opt),
                     scheduler_state_dict |-> SchedulerStateDict(sched)])
                @@ files,
     logdir |-> w]

\* a variant of load_weights that keeps the wrapper's weights when
\* from_pretrained finds nothing
load_weights_silent(suffix, files, ldw, w) ==
    IF ~PathExists(files, suffix)
    THEN [err |-> "none",
          weights |-> IF suffix \in PretrainedHub THEN HubWeights ELSE w]
    ELSE [err |-> "none", weights |-> IF ldw # NoWeights THEN ldw ELSE w]

\* Runner.load_model_checkpoint, lines 313-320: the weights.  from_pretrained
\* raises OSError when it finds no weights under the name or directory.
load_weights(suffix, files, ldw, w) ==
    IF ~PathExists(files, suffix)
    THEN (IF suffix \in PretrainedHub
          THEN [err |-> "none", weights |-> HubWeights]
          ELSE [err |-> "OSError", weights |-> w])
    ELSE (IF ldw # NoWeights
          THEN [err |-> "none", weights |-> ldw]
          ELSE [err |-> "OSError", weights |-> w])

\* a variant of load_training_state that restores whenever the record exists
load_training_state_always(suffix, continue_training, files, opt, sched, c) ==
    IF ~PathExists(files, suffix)
    THEN [err |-> IF continue_training THEN "FileNotFoundError" ELSE "none",
          optimizer |-> opt, scheduler |-> sched, epoch |-> -1]
    ELSE LET checkpoint == files[CkptKey(suffix.run, suffix.step)]
             made == get_scheduler(get_optimizer, TotalUpdateSteps(c))
         IN  [err       |-> "none",
              optimizer |-> OptimizerLoadStateDict(
                               made.opt, checkpoint.optimizer_state_dict),
              scheduler |-> SchedulerLoadStateDict(
                               made.sched, checkpoint.scheduler_state_dict),
              epoch     |-> checkpoint.current_epoch]

\* Runner.load_model_checkpoint, lines 321-337: optimizer, scheduler, epoch.
\* torch.load raises FileNotFoundError when the record file is missing.
load_training_state(suffix, continue_training, files, opt, sched, c) ==
    IF ~continue_training
    THEN [err |-> "none", optimizer |-> opt, scheduler |-> sched, epoch |-> -1]
    ELSE IF ~PathExists(files, suffix)
    THEN [err |-> "FileNotFoundError", optimizer |-> opt, scheduler |-> sched,
          epoch |-> -1]
    ELSE LET checkpoint == files[CkptKey(suffix.run, suffix.step)]
             made == get_scheduler(get_optimizer, TotalUpdateSteps(c))
         IN  [err       |-> "none",
              optimizer |-> OptimizerLoadStateDict(
                               made.opt, checkpoint.optimizer_state_dict),
              scheduler |-> SchedulerLoadStateDict(
                               made.sched, checkpoint.scheduler_state_dict),
              epoch     |-> checkpoint.current_epoch]

\* Runner.load_model_checkpoint.  The result carries the exception raised
\* ("none" when it returns) and the state as the call leaves it.
load_model_checkpoint(suffix, continue_training, files, ldw, w, opt, sched, c) ==
    LET lw == load_weights(suffix, files, ldw, w)
        ts == load_training_state(suffix, continue_training, files, opt, sched, c)
    IN  IF lw.err # "none"
        THEN [err |-> lw.err, weights |-> lw.weights, optimizer |-> opt,
              scheduler |-> sched, epoch |-> -1]
        ELSE [err |-> ts.err, weights |-> lw.weights,
              optimizer |-> ts.optimizer, scheduler |-> ts.scheduler,
              epoch |-> ts.epoch]

(***************************************************************************)
(* Initial state: the first Runner has been constructed, the log directory *)
(* is empty.                                                               *)
(***************************************************************************)
Configs ==
    [n_examples       : 1..MaxExamples,
     batch_size       : 1..MaxBatchSize,
     num_epochs       : 1..MaxEpochs,
     grad_accum       : 1..MaxGradAccum,
     eval_frequency   : 1..MaxFreq,
     report_frequency : 1..MaxFreq,
     max_grad_norm    : 0..MaxGradNorm]    \* 0: no clipping configured

\* the locals of train before / at the start of a call (lines 125-131)
TrainLocalsInit ==
    /\ loss_during_accum = <<>>
    /\ loss_during_report = 0
    /\ loss_history = <<>>
    /\ max_f1 = 0
    /\ best_ckpt_step_count = 0
    /\ f1 = 0
    /\ grads = 0
    /\ micro_steps = 0
    /\ opt_steps = 0
    /\ micro_losses = <<>>
    /\ dev_scores = {}
    /\ evals = <<>>
    /\ reports = <<>>
    /\ ops = <<>>

Init ==
    /\ cfg \in Configs
    /\ run = 1
    /\ pc = "constructed"
    /\ err = "none"
    /\ ckpt_files = NoFiles
    /\ logdir_weights = NoWeights
    /\ optimizer = NoOptimizer
    /\ scheduler = NoScheduler
    /\ weights = NoWeights
    /\ load_req = [suffix |-> NoSuffix, continue_training |-> FALSE]
    /\ ret_epoch = 0
    /\ continued = FALSE
    /\ epo = 0
    /\ batch_idx = 0
    /\ eval_calls = <<>>
    /\ start_step = 0
    /\ save_log = NoFiles
    /\ named_parameters = ModelParameters
    /\ param_groups = NoGroups
    /\ TrainLocalsInit

trainLocals == <<loss_during_accum, loss_during_report, loss_history, max_f1,
                 best_ckpt_step_count, f1, grads, micro_steps, opt_steps,
                 micro_losses, dev_scores, evals, reports, ops>>
disk == <<ckpt_files, logdir_weights>>
memory == <<optimizer, scheduler, weights>>

(***************************************************************************)
(* Runner.initialize_model(saved_suffix, continue_training)                *)
(***************************************************************************)
Suffixes ==
    {NoSuffix, SuffixX, HubName}
        \cup {CkptSuffix(k[1], k[2]) : k \in DOMAIN ckpt_files}

initialize_model(saved_suffix, continue_training) ==
    /\ pc = "constructed"
    /\ load_req' = [suffix |-> saved_suffix,
                    continue_training |-> continue_training]
    /\ IF saved_suffix = NoSuffix
       THEN /\ weights' = BaseWeights
            /\ ret_epoch' = 0
            /\ pc' = "initialized"
            /\ UNCHANGED <<err, optimizer, scheduler, param_groups>>
       ELSE LET r == load_model_checkpoint(saved_suffix, continue_training,
                        ckpt_files, logdir_weights, BaseWeights,
                        optimizer, scheduler, cfg)
            IN  /\ weights' = r.weights
                /\ optimizer' = r.optimizer
                /\ scheduler' = r.scheduler
                /\ param_groups' = IF r.optimizer.exists   \* line 323
                                   THEN optimizer_param_groups(named_parameters)
                                   ELSE param_groups
                /\ ret_epoch' = r.epoch
                /\ err' = r.err
                /\ pc' = IF r.err = "none" THEN "initialized" ELSE "crashed"
    /\ UNCHANGED <<cfg, named_parameters, save_log, run, disk, continued, epo,
                   batch_idx, eval_calls, start_step, trainLocals>>

InitializeModel ==
    \E saved_suffix \in Suffixes, continue_training \in BOOLEAN :
        /\ (saved_suffix = NoSuffix => ~continue_training)
        /\ initialize_model(saved_suffix, continue_training)

(***************************************************************************)
(* evaluate_ner.evaluate: load without resuming, then one test evaluation  *)
(***************************************************************************)
EvaluateNer ==
    /\ pc = "initialized"
    /\ load_req.suffix # NoSuffix
    /\ ~load_req.continue_training
    /\ eval_calls' = Append(eval_calls, <<"test", 0>>)
    /\ pc' = "returned"
    /\ UNCHANGED <<cfg, named_parameters, param_groups, save_log, run, err, disk, optimizer, scheduler, weights,
                   load_req, ret_epoch, continued, epo, batch_idx,
                   start_step, trainLocals>>

(***************************************************************************)
(* Runner.train, lines 92-131: set-up                                      *)
(***************************************************************************)
\* a variant of setup_optimizer that always starts afresh
setup_optimizer_fresh(is_continued, opt, sched, c) ==
    get_scheduler(get_optimizer, TotalUpdateSteps(c))

\* lines 110-112: a run that is not continued gets a new optimizer and a
\* new scheduler; a continued run keeps the ones the load restored
setup_optimizer(is_continued, opt, sched, c) ==
    IF ~is_continued
    THEN get_scheduler(get_optimizer, TotalUpdateSteps(c))
    ELSE [sched |-> sched, opt |-> opt]

\* a variant of max_f1_at_start that takes up the score of the checkpoint
\* the run is resumed from
max_f1_at_start_resumed ==
    IF load_req.continue_training
    THEN save_log[CkptKey(load_req.suffix.run, load_req.suffix.step)].score
    ELSE 0

\* line 128: max_f1 at the start of every train call
max_f1_at_start == 0

\* a variant of first_epoch that resumes after the epoch of the checkpoint
first_epoch_after(is_continued, start_epoch) ==
    IF is_continued THEN start_epoch + 1 ELSE start_epoch

\* line 140: range(start_epoch, epochs) starts at start_epoch
first_epoch(is_continued, start_epoch) == start_epoch

train_setup(is_continued, start_epoch) ==
    /\ pc = "initialized"
    /\ continued' = is_continued
    /\ LET made == setup_optimizer(is_continued, optimizer, scheduler, cfg)
       IN  /\ optimizer' = made.opt
           /\ scheduler' = made.sched
           /\ start_step' = made.sched.step_count   \* 'Starting step: %d'
    /\ param_groups' = IF ~is_continued                \* line 111
                       THEN optimizer_param_groups(named_parameters)
                       ELSE param_groups
    /\ loss_during_accum' = <<>>
    /\ loss_during_report' = 0
    /\ loss_history' = <<>>
    /\ max_f1' = max_f1_at_start
    /\ best_ckpt_step_count' = 0
    /\ grads' = 0
    /\ ops' = <<"zero_grad">>                     \* line 131
    /\ epo' = first_epoch(is_continued, start_epoch)
    /\ batch_idx' = 0                             \* a new iterator, line 142
    /\ pc' = "loop"
    /\ UNCHANGED <<cfg, named_parameters, save_log, run, err, disk, weights,
                   load_req, ret_epoch, f1,
                   eval_calls, micro_steps, opt_steps, micro_losses,
                   dev_scores, evals, reports>>

\* the training entry point: a fresh run, or the resumption of a checkpoint
TrainSetup ==
    /\ pc = "initialized"
    /\ load_req.suffix = NoSuffix \/ load_req.continue_training
    /\ train_setup(load_req.continue_training, ret_epoch)


(***************************************************************************)
(* Runner.train, lines 140-155: next mini-batch, forward and backward      *)
(***************************************************************************)
\* a variant of epochs_exhausted that makes one more pass
epochs_exhausted_late(e, num_epochs) == e > num_epochs

\* line 140: range(start_epoch, epochs) is used up
epochs_exhausted(e, num_epochs) == e >= num_epochs

forward_backward(raw_loss) ==
    /\ pc = "loop"
    /\ ~epochs_exhausted(epo, cfg.num_epochs)
    /\ batch_idx < NumBatches(cfg)
    /\ LET loss == raw_loss \div cfg.grad_accum   \* wrapper(...) / grad_accum
       IN  /\ loss_during_accum' = Append(loss_during_accum, loss)
           /\ micro_losses' =
                 IF micro_steps % cfg.grad_accum = 0
                 THEN <<loss>>
                 ELSE Append(micro_losses, loss)
    /\ grads' = grads + 1                         \* loss.backward()
    /\ ops' = Append(ops, "backward")
    /\ batch_idx' = batch_idx + 1
    /\ micro_steps' = micro_steps + 1
    /\ pc' = "update"
    /\ UNCHANGED <<cfg, named_parameters, param_groups, save_log, run, err, disk, optimizer, scheduler, weights,
                   load_req, ret_epoch, continued, epo, loss_during_report,
                   loss_history, max_f1, best_ckpt_step_count, f1,
                   eval_calls, start_step, opt_steps, dev_scores, evals,
                   reports>>

\* the forward pass may return any loss
ForwardBackward ==
    \E l \in Losses : forward_backward(l * cfg.grad_accum)

\* every forward pass returns the same loss (no branch of train reads it)
ForwardBackwardSame == forward_backward(MaxLoss * cfg.grad_accum)

\* a variant of EpochEnd that starts every epoch with an empty buffer
EpochEnd_reset ==
    /\ pc = "loop"
    /\ ~epochs_exhausted(epo, cfg.num_epochs)
    /\ batch_idx = NumBatches(cfg)
    /\ epo' = epo + 1
    /\ batch_idx' = 0
    /\ loss_during_accum' = <<>>
    /\ UNCHANGED <<cfg, named_parameters, param_groups, save_log, run, pc, err,
                   disk, optimizer, scheduler, weights, load_req, ret_epoch,
                   continued, eval_calls, start_step, loss_during_report,
                   loss_history, max_f1, best_ckpt_step_count, f1, grads,
                   micro_steps, opt_steps, micro_losses, dev_scores, evals,
                   reports, ops>>

\* the trainloader is exhausted: next epoch
EpochEnd ==
    /\ pc = "loop"
    /\ ~epochs_exhausted(epo, cfg.num_epochs)
    /\ batch_idx = NumBatches(cfg)
    /\ epo' = epo + 1
    /\ batch_idx' = 0
    /\ UNCHANGED <<cfg, named_parameters, param_groups, save_log, run, pc, err, disk, optimizer, scheduler, weights,
                   load_req, ret_epoch, continued, eval_calls, start_step,
                   trainLocals>>

(***************************************************************************)
(* Runner.train, lines 157-178: the update at the end of a window          *)
(***************************************************************************)
\* line 158: the window is complete
window_complete(accum, grad_accum) == Len(accum) % grad_accum = 0

\* a variant of effective_loss that takes the last micro-step's loss only
effective_loss_last(accum) == accum[Len(accum)]

\* line 175: np.sum(loss_during_accum).item()
effective_loss(accum) == SeqSum(accum)

\* a variant of update_ops that steps the scheduler before the optimizer
update_ops_scheduler_first(max_grad_norm) ==
    (IF max_grad_norm # 0 THEN <<"clip_plm", "clip_task">> ELSE <<>>)
        \o <<"scheduler.step", "optimizer.step", "zero_grad">>

\* lines 159-172: what the update does to gradients, optimizer and scheduler
update_ops(max_grad_norm) ==
    (IF max_grad_norm # 0                         \* if config['max_grad_norm']
     THEN <<"clip_plm", "clip_task">>
     ELSE <<>>) \o <<"optimizer.step", "scheduler.step", "zero_grad">>

Update ==
    /\ pc = "update"
    /\ IF window_complete(loss_during_accum, cfg.grad_accum)
       THEN LET stepped == OptimizerStep(optimizer)
                sch == SchedulerStep(scheduler, stepped, TotalUpdateSteps(cfg))
                eff == effective_loss(loss_during_accum)
            IN  /\ optimizer' = sch.opt
                /\ scheduler' = sch.sched
                /\ weights' = TrainedWeights(run, sch.sched.step_count)
                /\ grads' = 0                     \* zero_grad
                /\ ops' = ops \o update_ops(cfg.max_grad_norm)
                /\ loss_during_accum' = <<>>
                /\ loss_during_report' = loss_during_report + eff
                /\ loss_history' = Append(loss_history, eff)
                /\ opt_steps' = opt_steps + 1
                /\ pc' = "report"
       ELSE /\ pc' = "loop"
            /\ UNCHANGED <<optimizer, scheduler, weights, grads, ops,
                           loss_during_accum, loss_during_report,
                           loss_history, opt_steps>>
    /\ UNCHANGED <<cfg, named_parameters, param_groups, save_log, run, err, disk, load_req, ret_epoch, continued, epo,
                   batch_idx, max_f1, best_ckpt_step_count, f1, eval_calls,
                   start_step, micro_steps, micro_losses, dev_scores, evals,
                   reports>>

(***************************************************************************)
(* Runner.train, lines 180-191: report                                     *)
(***************************************************************************)
Report ==
    /\ pc = "report"
    /\ IF scheduler.step_count % cfg.report_frequency = 0
       THEN /\ reports' = Append(reports,
                            [step |-> scheduler.step_count,
                             loss_sum |-> loss_during_report,
                             divisor |-> cfg.report_frequency,
                             opt_steps |-> opt_steps])
            /\ loss_during_report' = 0
       ELSE UNCHANGED <<reports, loss_during_report>>
    /\ pc' = "evaluate"
    /\ UNCHANGED <<cfg, named_parameters, ops, param_groups, save_log, run, err, disk, optimizer, scheduler, weights, grads,
                   load_req, ret_epoch, continued, epo, batch_idx,
                   loss_during_accum, loss_history, max_f1,
                   best_ckpt_step_count, f1, eval_calls, start_step,
                   micro_steps, opt_steps, micro_losses, dev_scores, evals>>

(***************************************************************************)
(* Runner.train, lines 193-212: dev evaluation and model selection         *)
(***************************************************************************)
\* line 194: is an evaluation due at this step count
eval_due(step_count, eval_frequency) == step_count % eval_frequency = 0

\* a variant of is_new_best that also accepts a tie
is_new_best_tie(score, best) == score >= best

\* line 202: model selection
is_new_best(score, best) == score > best

\* a variant of new_best that loses the new score
new_best_stale(best, score) == best

\* line 203
new_best(best, score) == Max(best, score)

evaluate_dev(score) ==
    /\ pc = "evaluate"
    /\ eval_due(scheduler.step_count, cfg.eval_frequency)
    /\ f1' = score
    /\ evals' = Append(evals, <<opt_steps, scheduler.step_count>>)
    /\ dev_scores' = dev_scores \cup {score}
    /\ IF is_new_best(score, max_f1)
       THEN LET saved == save_model_checkpoint(ckpt_files, weights, optimizer,
                            scheduler, run, scheduler.step_count, epo)
            IN  /\ max_f1' = new_best(max_f1, score)
                /\ ckpt_files' = saved.files
                /\ logdir_weights' = saved.logdir
                /\ best_ckpt_step_count' = scheduler.step_count
                /\ save_log' = (CkptKey(run, scheduler.step_count) :>
                                  [optimizer |-> optimizer,
                                   scheduler |-> scheduler,
                                   epoch |-> epo,
                                   weights |-> weights,
                                   score |-> score]) @@ save_log
       ELSE UNCHANGED <<max_f1, disk, best_ckpt_step_count, save_log>>
    /\ pc' = "loop"
    /\ UNCHANGED <<cfg, named_parameters, ops, param_groups, run, err, optimizer,
                   scheduler, weights, grads,
                   load_req, ret_epoch, continued, epo, batch_idx,
                   loss_during_accum, loss_during_report, loss_history,
                   eval_calls, start_step, micro_steps, opt_steps,
                   micro_losses, reports>>

Evaluate == \E score \in Scores : evaluate_dev(score)

\* the step count is no multiple of eval_frequency: no evaluation
SkipEvaluate ==
    /\ pc = "evaluate"
    /\ ~eval_due(scheduler.step_count, cfg.eval_frequency)
    /\ pc' = "loop"
    /\ UNCHANGED <<cfg, named_parameters, param_groups, save_log, run, err, disk, optimizer, scheduler, weights, grads,
                   load_req, ret_epoch, continued, epo, batch_idx,
                   eval_calls, start_step, trainLocals>>

(***************************************************************************)
(* Runner.train, lines 214-243: after the epoch loop.  Line 230 builds the *)
(* suffix of the best checkpoint as                                        *)
(*     self.name_suffix + "_" + best_ckpt_step_count                       *)
(* with best_ckpt_step_count an int (0, or scheduler._step_count): str +   *)
(* int raises TypeError before load_model_checkpoint is entered, so the    *)
(* reload and the four final evaluations are never reached.                *)
(***************************************************************************)
PostLoop ==
    /\ pc = "loop"
    /\ epochs_exhausted(epo, cfg.num_epochs)
    /\ err' = "TypeError"
    /\ pc' = "crashed"
    /\ UNCHANGED <<cfg, named_parameters, param_groups, save_log, run, disk, optimizer, scheduler, weights, load_req,
                   ret_epoch, continued, epo, batch_idx, eval_calls,
                   start_step, trainLocals>>

(***************************************************************************)
(* The process has ended; a later process constructs its own Runner over   *)
(* the same log directory.                                                 *)
(***************************************************************************)
NewRunner ==
    /\ pc \in {"crashed", "returned"}
    /\ run < MaxRuns
    /\ run' = run + 1
    /\ pc' = "constructed"
    /\ err' = "none"
    /\ optimizer' = NoOptimizer
    /\ scheduler' = NoScheduler
    /\ weights' = NoWeights
    /\ load_req' = [suffix |-> NoSuffix, continue_training |-> FALSE]
    /\ ret_epoch' = 0
    /\ continued' = FALSE
    /\ epo' = 0
    /\ batch_idx' = 0
    /\ eval_calls' = <<>>
    /\ start_step' = 0
    /\ loss_during_accum' = <<>>
    /\ loss_during_report' = 0
    /\ loss_history' = <<>>
    /\ max_f1' = 0
    /\ best_ckpt_step_count' = 0
    /\ f1' = 0
    /\ grads' = 0
    /\ micro_steps' = 0
    /\ opt_steps' = 0
    /\ micro_losses' = <<>>
    /\ dev_scores' = {}
    /\ evals' = <<>>
    /\ reports' = <<>>
    /\ ops' = <<>>
    /\ param_groups' = NoGroups
    /\ UNCHANGED <<cfg, named_parameters, save_log, disk>>

(***************************************************************************)
(* Spec: successive processes over one log directory; the loss values are  *)
(* abstracted to one value.                                                *)
(* SpecLoss: one process, every forward pass returning any loss.           *)
(***************************************************************************)
Next ==
    \/ InitializeModel
    \/ EvaluateNer
    \/ TrainSetup
    \/ ForwardBackwardSame
    \/ EpochEnd
    \/ Update
    \/ Report
    \/ Evaluate
    \/ SkipEvaluate
    \/ PostLoop
    \/ NewRunner

Spec == Init /\ [][Next]_vars

NextLoss ==
    \/ InitializeModel
    \/ EvaluateNer
    \/ TrainSetup
    \/ ForwardBackward
    \/ EpochEnd
    \/ Update
    \/ Report
    \/ Evaluate
    \/ SkipEvaluate
    \/ PostLoop

SpecLoss == Init /\ [][NextLoss]_vars

\* SpecOpt: a fresh run up to the construction of its optimizer, for every
\* wrapper of at most MaxParams parameters
OptConfig ==
    [n_examples |-> 1, batch_size |-> 1, num_epochs |-> 1, grad_accum |-> 1,
     eval_frequency |-> 1, report_frequency |-> 1, max_grad_norm |-> 0]

InitOpt ==
    /\ cfg = OptConfig
    /\ \E k \in 1..MaxParams :
          named_parameters \in [1..k -> [name : Names, part : Parts]]
    /\ run = 1
    /\ pc = "constructed"
    /\ err = "none"
    /\ ckpt_files = NoFiles
    /\ logdir_weights = NoWeights
    /\ optimizer = NoOptimizer
    /\ scheduler = NoScheduler
    /\ weights = NoWeights
    /\ load_req = [suffix |-> NoSuffix, continue_training |-> FALSE]
    /\ ret_epoch = 0
    /\ continued = FALSE
    /\ epo = 0
    /\ batch_idx = 0
    /\ eval_calls = <<>>
    /\ start_step = 0
    /\ save_log = NoFiles
    /\ param_groups = NoGroups
    /\ TrainLocalsInit

InitializeModelFresh == initialize_model(NoSuffix, FALSE)

NextOpt ==
    \/ InitializeModelFresh
    \/ TrainSetup

SpecOpt == InitOpt /\ [][NextOpt]_vars

\* SpecFair: Spec with the one thread of control never stopping while it
\* can step; reporting and clipping, which do not touch the control of the
\* loops, are fixed
InitFair ==
    /\ Init
    /\ cfg.report_frequency = 1
    /\ cfg.max_grad_norm = 0

SpecFair == InitFair /\ [][Next]_vars /\ WF_vars(Next)


(***************************************************************************)
(* Properties.                                                             *)
(***************************************************************************)
InTrain == pc \in {"loop", "update", "report", "evaluate"}
DevEvaluated == Len(evals') = Len(evals) + 1
CkptWritten == DOMAIN ckpt_files' # DOMAIN ckpt_files
MaxOf(S) == CHOOSE m \in S : \A x \in S : m >= x

\* C1 (as stated): at every dev evaluation of a train call a checkpoint is
\* written if and only if the score returned strictly exceeds every score
\* returned before in this call.
C1_WrittenIffBeyondPrior ==
    [][DevEvaluated =>
          (CkptWritten <=> \A p \in dev_scores : f1' > p)]_vars

\* C1 (amended): at every dev evaluation of a train call a checkpoint is
\* written if and only if the score returned strictly exceeds the maximum
\* of 0 and all the scores returned before in this call.
C1_WrittenIffBeyondBest ==
    [][DevEvaluated =>
          (CkptWritten <=> f1' > MaxOf(dev_scores \cup {0}))]_vars

\* three evaluations of one call: 1 (written), 2 (written), 1 (not written)
C1_Witness ==
    /\ run = 1
    /\ Len(evals) = 3
    /\ dev_scores = {1, 2}
    /\ f1 = 1
    /\ DOMAIN ckpt_files = {CkptKey(1, evals[1][2]), CkptKey(1, evals[2][2])}

\* C2: whenever train writes a checkpoint record or model weights, a dev
\* evaluation has just run at the current step S, the record is the one of
\* step S and the score is beyond every earlier score of the call; and an
\* evaluation returning zero or a score not above the running best leaves
\* the record files and the weights of the log directory as they are.
C2_RecordOnlyForNewBest ==
    [][/\ (ckpt_files' # ckpt_files \/ logdir_weights' # logdir_weights) =>
            /\ DevEvaluated
            /\ evals'[Len(evals')][2] = scheduler.step_count
            /\ DOMAIN ckpt_files' =
                  DOMAIN ckpt_files \cup {CkptKey(run, scheduler.step_count)}
            /\ \A k \in DOMAIN ckpt_files : ckpt_files'[k] = ckpt_files[k]
            /\ \A p \in dev_scores : f1' > p
            /\ f1' > 0
       /\ (DevEvaluated /\ (f1' = 0 \/ f1' <= max_f1)) =>
            UNCHANGED <<ckpt_files, logdir_weights>>
      ]_vars

\* the first evaluation returned 0 and wrote nothing, the second one wrote
C2_Witness ==
    /\ run = 1
    /\ Len(evals) = 2
    /\ dev_scores = {0, 2}
    /\ f1 = 2
    /\ DOMAIN ckpt_files = {CkptKey(1, evals[2][2])}
    /\ logdir_weights = TrainedWeights(1, evals[2][2])

\* the train call of this process has ended (PostLoop is its only way out)
TrainEnded == start_step > 0 /\ pc = "crashed"

\* C3: in train the dev evaluator is called exactly after the optimizer
\* steps at which the scheduler step count is a multiple of eval_frequency;
\* with num_epochs=1, batch_size=2, 4 examples, grad_accum=1 and
\* eval_frequency=2 a fresh run makes exactly 2 optimizer steps and exactly
\* 1 evaluation call, and that call comes after the 2nd optimizer step.
C3_Scenario ==
    /\ cfg.num_epochs = 1
    /\ cfg.batch_size = 2
    /\ cfg.n_examples = 4
    /\ cfg.grad_accum = 1
    /\ cfg.eval_frequency = 2
    /\ ~continued

C3_EvalAfterSecondStep ==
    /\ \A i \in 1..Len(evals) : evals[i][2] % cfg.eval_frequency = 0
    /\ (pc = "loop" \/ TrainEnded) =>
          {evals[i][1] : i \in 1..Len(evals)} =
             {k \in 1..opt_steps : (start_step + k) % cfg.eval_frequency = 0}
    /\ (C3_Scenario /\ TrainEnded) =>
          /\ opt_steps = 2
          /\ Len(evals) = 1
          /\ evals[1][1] = 2

\* C4: with grad_accum = 1 in a fresh train call every mini-batch causes
\* exactly one optimizer step, and after N >= 1 mini-batches the scheduler
\* step count equals N.
C4_StepCountIsBatchCount ==
    (pc = "loop" /\ cfg.grad_accum = 1 /\ ~continued /\ micro_steps >= 1) =>
        /\ opt_steps = micro_steps
        /\ scheduler.step_count = micro_steps

\* C6: once the epoch loop of train has ended, the best checkpoint has been
\* reloaded without an error and the final evaluation has run with step -1
\* on the test, seen-test, unseen-test and train splits, in this order.
C6_ReloadBestThenFinalEvals ==
    TrainEnded \/ (start_step > 0 /\ pc = "returned") =>
        /\ err = "none"
        /\ weights = logdir_weights
        /\ eval_calls = << <<"test", -1>>, <<"seen", -1>>,
                           <<"unseen", -1>>, <<"train", -1>> >>

\* C5: with grad_accum = k > 1 the optimizer steps exactly at every k-th
\* mini-batch of the call and at no other time; the step count then grows by
\* one, the loss appended to the loss history is the sum of the k scaled
\* losses of exactly that window, and the accumulation buffer is empty.
C5_StepEveryKthMicroStep ==
    [][(cfg.grad_accum > 1 /\ InTrain) =>
          IF pc = "update" /\ micro_steps % cfg.grad_accum = 0
          THEN /\ opt_steps' = opt_steps + 1
               /\ scheduler'.step_count = scheduler.step_count + 1
               /\ Len(micro_losses) = cfg.grad_accum
               /\ loss_history' = Append(loss_history, SeqSum(micro_losses))
               /\ loss_during_accum' = <<>>
          ELSE /\ opt_steps' = opt_steps
               /\ scheduler'.step_count = scheduler.step_count
               /\ loss_history' = loss_history
      ]_vars

\* two windows of two mini-batches with the losses (1, 2) and (2, 2)
C5_Witness ==
    /\ cfg.grad_accum = 2
    /\ pc = "loop"
    /\ micro_steps = 4
    /\ micro_losses = <<2, 2>>
    /\ loss_history = <<3, 4>>
    /\ loss_during_accum = <<>>
    /\ opt_steps = 2

LoadKey == CkptKey(load_req.suffix.run, load_req.suffix.step)

\* C7: when load_model_checkpoint has returned for continue_training=True,
\* the optimizer state and the scheduler state (learning rates, step count)
\* are those the live objects had when the checkpoint was saved, and the
\* epoch returned is the epoch during which it was saved.
C7_ResumeRoundTrip ==
    (pc = "initialized" /\ load_req.continue_training) =>
        /\ LoadKey \in DOMAIN save_log
        /\ optimizer = save_log[LoadKey].optimizer
        /\ scheduler = save_log[LoadKey].scheduler
        /\ ret_epoch = save_log[LoadKey].epoch

\* a checkpoint saved during epoch 1, after at least two optimizer steps,
\* whose learning rates differ from those of a new scheduler
C7_Witness ==
    /\ pc = "initialized"
    /\ load_req.continue_training
    /\ ret_epoch = 1
    /\ scheduler.step_count >= 3
    /\ optimizer.step = scheduler.step_count - 1
    /\ optimizer.lr # GroupLrs(0, TotalUpdateSteps(cfg))

MissingErrors == {"OSError", "FileNotFoundError"}
LoadedMissing ==
    /\ pc # "constructed"
    /\ load_req.suffix # NoSuffix
    /\ ~PathExists(ckpt_files, load_req.suffix)
    /\ logdir_weights = NoWeights

\* C8 (as stated): a load for a suffix without a record file, the log
\* directory holding no weights, ends in an error for both values of
\* continue_training.
C8_MissingAlwaysFails ==
    LoadedMissing => (pc = "crashed" /\ err \in MissingErrors)

\* C8 (amended): such a load ends in an error whenever continue_training is
\* true or the suffix is not itself a name from_pretrained can resolve.
C8_MissingFailsUnlessResolvable ==
    (LoadedMissing
        /\ (load_req.continue_training \/ load_req.suffix \notin PretrainedHub))
    => (pc = "crashed" /\ err \in MissingErrors)

\* suffix "X" on an empty log directory, without continue_training
C8_Witness ==
    /\ run = 1
    /\ load_req = [suffix |-> SuffixX, continue_training |-> FALSE]
    /\ ckpt_files = NoFiles
    /\ logdir_weights = NoWeights
    /\ pc = "crashed"
    /\ err = "OSError"

\* C9: a load with continue_training=False returns epoch -1 and leaves the
\* runner without optimizer and scheduler, as it was; a load with
\* continue_training=True that returns has restored both from the record
\* and returns the epoch stored in it.
C9_RestoreOnlyWhenContinuing ==
    /\ (load_req.suffix # NoSuffix /\ ~load_req.continue_training
            /\ pc # "constructed") =>
          /\ optimizer = NoOptimizer
          /\ scheduler = NoScheduler
          /\ pc # "crashed" => ret_epoch = -1
    /\ (load_req.continue_training /\ pc = "initialized") =>
          /\ ret_epoch = ckpt_files[LoadKey].current_epoch
          /\ ret_epoch >= 0
          /\ optimizer.exists /\ scheduler.exists
          /\ OptimizerStateDict(optimizer) =
                ckpt_files[LoadKey].optimizer_state_dict
          /\ SchedulerStateDict(scheduler) =
                ckpt_files[LoadKey].scheduler_state_dict

\* the record of an existing checkpoint loaded without continue_training
C9_Witness ==
    /\ PathExists(ckpt_files, load_req.suffix)
    /\ ~load_req.continue_training
    /\ pc = "initialized"
    /\ ret_epoch = -1
    /\ weights = logdir_weights
    /\ ckpt_files[LoadKey].scheduler_state_dict.step_count >= 2

\* C10: during a train call the scheduler step count never decreases, grows
\* by exactly one at each optimizer step and changes at no other time; and
\* a train call continued after a resuming load starts from the step count
\* stored in the checkpoint, not from that of a new scheduler.
C10_StepCountMonotoneAndResumed ==
    [][/\ InTrain =>
            /\ scheduler'.step_count >= scheduler.step_count
            /\ scheduler'.step_count # scheduler.step_count =>
                  /\ scheduler'.step_count = scheduler.step_count + 1
                  /\ opt_steps' = opt_steps + 1
                  /\ optimizer'.step = optimizer.step + 1
            /\ opt_steps' # opt_steps =>
                  scheduler'.step_count = scheduler.step_count + 1
       /\ (pc = "initialized" /\ pc' = "loop" /\ load_req.continue_training) =>
            /\ continued'
            /\ scheduler'.step_count =
                  ckpt_files[LoadKey].scheduler_state_dict.step_count
            /\ scheduler'.step_count = load_req.suffix.step
            /\ scheduler'.step_count > get_scheduler(
                  get_optimizer, TotalUpdateSteps(cfg)).sched.step_count
            /\ start_step' = scheduler'.step_count
      ]_vars

\* a resumed run two optimizer steps after its start
C10_Witness ==
    /\ continued
    /\ pc = "loop"
    /\ opt_steps = 2
    /\ start_step = load_req.suffix.step
    /\ start_step >= 3
    /\ scheduler.step_count = start_step + 2

\* C11: the epoch loop of a train call with start epoch s makes exactly
\* max(0, num_epochs - s) full passes over the training loader, whatever the
\* dev scores, and then reaches the post-loop phase: it always gets there.
C11_Passes == Max(0, cfg.num_epochs - ret_epoch)

C11_LoopTerminates ==
    /\ [](InTrain =>
            /\ micro_steps = (epo - ret_epoch) * NumBatches(cfg) + batch_idx
            /\ batch_idx <= NumBatches(cfg)
            /\ micro_steps <= C11_Passes * NumBatches(cfg))
    /\ [](TrainEnded => micro_steps = C11_Passes * NumBatches(cfg))
    /\ (InTrain ~> TrainEnded)

\* a resumed run that made one pass, with dev scores 0 and 2 on its way
C11_Witness ==
    /\ TrainEnded
    /\ continued
    /\ ret_epoch = 1
    /\ cfg.num_epochs = 2
    /\ micro_steps = NumBatches(cfg)
    /\ dev_scores = {0, 2}

\* C12: get_optimizer builds exactly three groups that partition the
\* parameters: an encoder parameter is once in group 1 when its name contains
\* no no-decay substring and once in group 2 when it contains one, never in
\* group 3; a task-head parameter is once in group 3 and in no other group,
\* whatever its name; group 1 has the configured weight decay, groups 2 and 3
\* have none; groups 1 and 2 have the encoder learning rate, group 3 the task
\* learning rate.
C12_HasNoDecayPart(n) ==
    \E a \in 1..Len(n), b \in 1..Len(n), k \in 1..Len(no_decay) :
        SubSeq(n, a, b) = no_decay[k]

C12_Times(i, g) ==
    Cardinality({j \in 1..Len(param_groups[g].params) :
                    param_groups[g].params[j] = i})

C12_BiasName == <<"encoder.layer.0", ".", "bias">>
C12_WeightName == <<"encoder.layer.0", ".", "weight">>

C12_GroupsPartitionParameters ==
    optimizer.exists =>
        /\ Len(param_groups) = 3
        /\ \A i \in 1..Len(named_parameters) :
              LET nd == C12_HasNoDecayPart(named_parameters[i].name)
                  plm == named_parameters[i].part = "plm"
              IN  /\ C12_Times(i, 1) = IF plm /\ ~nd THEN 1 ELSE 0
                  /\ C12_Times(i, 2) = IF plm /\ nd THEN 1 ELSE 0
                  /\ C12_Times(i, 3) = IF plm THEN 0 ELSE 1
                  /\ (plm /\ named_parameters[i].name = C12_BiasName)
                        => C12_Times(i, 2) = 1
                  /\ (plm /\ named_parameters[i].name = C12_WeightName)
                        => C12_Times(i, 1) = 1
        /\ \A g \in 1..3 : \A j \in 1..Len(param_groups[g].params) :
              param_groups[g].params[j] \in 1..Len(named_parameters)
        /\ param_groups[1].weight_decay = "adam_weight_decay"
        /\ param_groups[2].weight_decay = "0.0"
        /\ param_groups[3].weight_decay = "0.0"
        /\ param_groups[1].lr = "plm_learning_rate"
        /\ param_groups[2].lr = "plm_learning_rate"
        /\ param_groups[3].lr = "task_learning_rate"

\* the optimizer of a wrapper whose parameters are encoder.layer.0.bias
\* and encoder.layer.0.weight
C12_Witness ==
    /\ optimizer.exists
    /\ named_parameters =
          << [name |-> C12_BiasName, part |-> "plm"],
             [name |-> C12_WeightName, part |-> "plm"] >>
    /\ param_groups[1].params = <<2>>
    /\ param_groups[2].params = <<1>>
    /\ param_groups[3].params = <<>>

\* C13: at every accumulation-window boundary the operations are, in this
\* order and with nothing in between: clipping of the encoder gradients and
\* of the task-head gradients (only when max_grad_norm is configured),
\* optimizer step, scheduler step, gradient zeroing.  Gradients are zeroed
\* only there and once before the first mini-batch, never between the
\* micro-steps of a window; the optimizer steps with or without clipping.
C13_Backwards(i) ==
    Cardinality({j \in 1..i : ops[j] = "backward"})

C13_Is(i, op) == i \in 1..Len(ops) /\ ops[i] = op

C13_UpdateOrder ==
    (InTrain \/ TrainEnded) =>
        LET clip == cfg.max_grad_norm # 0
        IN  /\ C13_Is(1, "zero_grad")
            /\ \A i \in 1..Len(ops) :
                  /\ ops[i] = "backward" =>
                        IF C13_Backwards(i) % cfg.grad_accum # 0
                        THEN i = Len(ops) \/ C13_Is(i + 1, "backward")
                        ELSE IF i = Len(ops) THEN pc = "update"
                        ELSE IF clip THEN C13_Is(i + 1, "clip_plm")
                        ELSE C13_Is(i + 1, "optimizer.step")
                  /\ ops[i] = "clip_plm" =>
                        clip /\ C13_Is(i - 1, "backward")
                             /\ C13_Is(i + 1, "clip_task")
                  /\ ops[i] = "clip_task" =>
                        clip /\ C13_Is(i - 1, "clip_plm")
                             /\ C13_Is(i + 1, "optimizer.step")
                  /\ ops[i] = "optimizer.step" =>
                        /\ C13_Is(i - 1, IF clip THEN "clip_task" ELSE "backward")
                        /\ C13_Is(i + 1, "scheduler.step")
                  /\ ops[i] = "scheduler.step" =>
                        /\ C13_Is(i - 1, "optimizer.step")
                        /\ C13_Is(i + 1, "zero_grad")
                  /\ ops[i] = "zero_grad" =>
                        i = 1 \/ C13_Is(i - 1, "scheduler.step")

\* a window of two micro-steps closed with clipping configured
C13_Witness ==
    /\ pc = "report"
    /\ cfg.max_grad_norm # 0
    /\ cfg.grad_accum = 2
    /\ ops = <<"zero_grad", "backward", "backward", "clip_plm", "clip_task",
               "optimizer.step", "scheduler.step", "zero_grad">>

\* C14: a report is emitted exactly after the optimizer steps at which the
\* step count is a multiple of report_frequency; the average loss it emits
\* is the mean of the effective losses of the optimizer steps made since the
\* previous report (for the first report: since the start of the train
\* call); the rolling accumulator is 0 right after each report.
C14_StepsSince(i) ==
    reports[i].opt_steps - (IF i = 1 THEN 0 ELSE reports[i - 1].opt_steps)

C14_LossSince(i) ==
    SeqSum(SubSeq(loss_history,
                  (IF i = 1 THEN 0 ELSE reports[i - 1].opt_steps) + 1,
                  reports[i].opt_steps))

C14_ReportIsMeanSinceLast ==
    (InTrain \/ TrainEnded) =>
        /\ \A i \in 1..Len(reports) :
              /\ reports[i].step % cfg.report_frequency = 0
              /\ C14_StepsSince(i) > 0
              \* loss_sum / divisor = C14_LossSince / C14_StepsSince
              /\ reports[i].loss_sum * C14_StepsSince(i)
                    = C14_LossSince(i) * reports[i].divisor
        /\ \A k \in 1..opt_steps :
              (start_step + k) % cfg.report_frequency = 0
                 => \/ \E i \in 1..Len(reports) : reports[i].opt_steps = k
                    \/ k = opt_steps /\ pc = "report"
        /\ (pc = "evaluate" /\ scheduler.step_count % cfg.report_frequency = 0)
              => loss_during_report = 0

\* C15: the loss history holds one effective-loss entry per optimizer step,
\* in step order, and at the end of the epoch loop of a fresh run its length
\* is total_update_steps = len(examples_train) * num_epochs
\* // (grad_accum * batch_size), whatever the sizes.
C15_HistoryLengthIsTotal ==
    /\ (InTrain \/ TrainEnded) => Len(loss_history) = opt_steps
    /\ (TrainEnded /\ ~continued) =>
          Len(loss_history) = (cfg.n_examples * cfg.num_epochs)
                                 \div (cfg.grad_accum * cfg.batch_size)

\* C16: whatever save_model_checkpoint calls were made into the log
\* directory, a load of the checkpoint of step S with continue_training=True
\* yields weights, optimizer state and scheduler state that were all saved
\* at step S, also when later checkpoints have been saved since.
C16_LoadedStateOfOneStep ==
    (pc = "initialized" /\ load_req.continue_training) =>
        /\ LoadKey \in DOMAIN save_log
        /\ weights = save_log[LoadKey].weights
        /\ weights = TrainedWeights(load_req.suffix.run, load_req.suffix.step)
        /\ OptimizerStateDict(optimizer)
              = OptimizerStateDict(save_log[LoadKey].optimizer)
        /\ SchedulerStateDict(scheduler)
              = SchedulerStateDict(save_log[LoadKey].scheduler)
        /\ scheduler.step_count = load_req.suffix.step

\* C17: at every point of a train call max_f1 is the maximum of 0 and the
\* dev scores returned so far in the call, and it never decreases;
\* best_ckpt_step_count is 0 while the call has written no checkpoint and
\* otherwise the step of the checkpoint written last, whose record file
\* exists and whose weights are the ones in the log directory.
C17_StepsWritten == {k[2] : k \in {q \in DOMAIN ckpt_files : q[1] = run}}

C17_BestTracksLastCheckpoint ==
    /\ []((InTrain \/ TrainEnded) =>
            /\ max_f1 = MaxOf(dev_scores \cup {0})
            /\ IF C17_StepsWritten = {}
               THEN best_ckpt_step_count = 0
               ELSE /\ best_ckpt_step_count = MaxOf(C17_StepsWritten)
                    /\ PathExists(ckpt_files,
                                  CkptSuffix(run, best_ckpt_step_count))
                    /\ logdir_weights
                          = save_log[CkptKey(run, best_ckpt_step_count)].weights
                    /\ logdir_weights
                          = TrainedWeights(run, best_ckpt_step_count))
    /\ [][(InTrain /\ InTrain') => max_f1' >= max_f1]_vars
    /\ [][(InTrain /\ CkptWritten) =>
             best_ckpt_step_count' = scheduler.step_count]_vars

\* a call that has written two checkpoints and then seen a lower score
C17_Witness ==
    /\ InTrain
    /\ Cardinality(C17_StepsWritten) = 2
    /\ dev_scores = {0, 1, 2}
    /\ f1 = 0
    /\ max_f1 = 2
    /\ best_ckpt_step_count = MaxOf(C17_StepsWritten)

\* C18: the accumulation window runs across epoch boundaries.  With M the
\* number of mini-batches processed so far by a train call, the call has
\* made floor(M / grad_accum) optimizer steps, and the gradients of the last
\* M mod grad_accum mini-batches have been applied by no optimizer step; so
\* it is at the end of the call, M being the mini-batches of all its epochs.
C18_Count(op) == Cardinality({i \in 1..Len(ops) : ops[i] = op})

C18_WindowAcrossEpochs ==
    /\ (InTrain \/ TrainEnded) =>
          /\ C18_Count("backward") = micro_steps
          /\ C18_Count("optimizer.step") = opt_steps
          /\ scheduler.step_count = start_step + opt_steps
    /\ ((InTrain /\ pc # "update") \/ TrainEnded) =>
          /\ opt_steps = micro_steps \div cfg.grad_accum
          /\ Len(loss_during_accum) = micro_steps % cfg.grad_accum
          /\ grads = micro_steps % cfg.grad_accum
          /\ \A i \in 1..Len(ops) :
                i > Len(ops) - (micro_steps % cfg.grad_accum)
                   => ops[i] = "backward"
    /\ TrainEnded =>
          /\ micro_steps = (cfg.num_epochs - ret_epoch) * NumBatches(cfg)
          /\ opt_steps = ((cfg.num_epochs - ret_epoch) * NumBatches(cfg))
                            \div cfg.grad_accum

\* the second optimizer step of a run of 3 mini-batches per epoch and
\* grad_accum = 2: its window is the last mini-batch of epoch 0 and the first
\* of epoch 1
C18_Witness ==
    /\ pc = "report"
    /\ cfg.grad_accum = 2
    /\ NumBatches(cfg) = 3
    /\ epo = 1
    /\ batch_idx = 1
    /\ opt_steps = 2
    /\ micro_steps = 4

\* C19: the running best score is not carried across a resume.  A train
\* call with continued=True starts with max_f1 = 0, and its first dev
\* evaluation that returns a positive score writes a checkpoint and replaces
\* the weights in the log directory, also when that score is lower than the
\* score of the checkpoint the run was resumed from.
C19_ResumedScore == save_log[LoadKey].score

C19_BestNotCarriedOver ==
    /\ [][(pc = "initialized" /\ pc' = "loop" /\ continued') =>
             max_f1' = 0]_vars
    /\ [][(DevEvaluated /\ continued /\ dev_scores \subseteq {0} /\ f1' > 0) =>
             /\ CkptWritten
             /\ PathExists(ckpt_files', CkptSuffix(run, scheduler.step_count))
             /\ logdir_weights' = weights
             /\ max_f1' = f1'
             /\ best_ckpt_step_count' = scheduler.step_count]_vars

\* a resumed run whose first evaluation scored below the checkpoint it was
\* resumed from, and whose weights have replaced that checkpoint's
C19_Witness ==
    /\ pc = "loop"
    /\ continued
    /\ Len(evals) = 1
    /\ f1 = 1
    /\ C19_ResumedScore = 2
    /\ best_ckpt_step_count = scheduler.step_count
    /\ logdir_weights = weights
    /\ logdir_weights # save_log[LoadKey].weights

\* C20: a train call resumed with start_epoch = e processes every mini-batch
\* of the epochs e..num_epochs-1, epoch e from its first mini-batch on, so
\* that it ends with scheduler step count = restored count
\* + floor((num_epochs - e) * batches_per_epoch / grad_accum); for a
\* checkpoint written part-way through epoch e that can exceed the step
\* count of an uninterrupted run and total_update_steps.
C20_RestoredCount == save_log[LoadKey].scheduler.step_count

C20_ResumeRepeatsEpoch ==
    /\ (InTrain /\ continued) =>
          /\ epo >= ret_epoch
          /\ ret_epoch = save_log[LoadKey].epoch
          /\ micro_steps = (epo - ret_epoch) * NumBatches(cfg) + batch_idx
          /\ (micro_steps = 0 => epo = ret_epoch /\ batch_idx = 0)
    /\ (TrainEnded /\ continued) =>
          /\ micro_steps = (cfg.num_epochs - ret_epoch) * NumBatches(cfg)
          /\ scheduler.step_count
                = C20_RestoredCount
                  + ((cfg.num_epochs - ret_epoch) * NumBatches(cfg))
                       \div cfg.grad_accum

\* the step count an uninterrupted run ends with
C20_UninterruptedCount ==
    1 + (cfg.num_epochs * NumBatches(cfg)) \div cfg.grad_accum

\* a run resumed from a checkpoint written after steps of epoch e had been
\* made ends beyond an uninterrupted run and beyond total_update_steps
C20_Witness ==
    /\ TrainEnded
    /\ continued
    /\ C20_RestoredCount
          > 1 + (ret_epoch * NumBatches(cfg)) \div cfg.grad_accum
    /\ scheduler.step_count > C20_UninterruptedCount
    /\ scheduler.step_count > TotalUpdateSteps(cfg)
    /\ NumBatches(cfg) * cfg.num_epochs
          = cfg.grad_accum * TotalUpdateSteps(cfg)

====
